---------------------------- MODULE Spec2Model ----------------------------
(***************************************************************************)
(* Inter-region latency dataset of az_scout_latency_stats/latency.py:      *)
(* the _LATENCY_PAIRS dict built by the module's _add calls, the runtime   *)
(* _cache, and the three read operations get_rtt_ms, list_known_pairs and  *)
(* get_latency_matrix.                                                     *)
(*                                                                         *)
(* Python values are modelled as follows.                                  *)
(*   str        a TLA+ string; characters are its one-character substrings *)
(*   dict       a sequence of <<key, value>> in insertion order, one entry *)
(*              per key (Python dicts keep insertion order)                *)
(*   int | None <<n>> for the int n, <<>> for None                         *)
(***************************************************************************)
EXTENDS Integers, Sequences, FiniteSets, TLC

VARIABLES
    LATENCY_PAIRS,  \* _LATENCY_PAIRS: dict[tuple[str, str], int]
    cache,          \* _cache: dict[str, tuple[float, int | None]]
    now,            \* the value time.monotonic() returns
    ticks,          \* how many times the clock has advanced (bounded)
    call,           \* the sequential caller: the call it made and its result
    adds,           \* how many _add calls have run
    readers         \* the concurrent readers: each one's position and locals

vars == <<LATENCY_PAIRS, cache, now, ticks, call, adds, readers>>

-----------------------------------------------------------------------------
(* Bounds of the model *)

\* Longest region_names list passed to get_latency_matrix.
MaxRegions == 2

\* How many times the clock advances.
MaxTicks == 1

\* How many _add calls SpecAdd makes after the import.
MaxAdds == 2

\* Largest round-trip time passed to _add in SpecAdd.
MaxRtt == 2

-----------------------------------------------------------------------------
(* Python str *)

UpperCase == "ABCDEFGHIJKLMNOPQRSTUVWXYZ"
LowerCase == "abcdefghijklmnopqrstuvwxyz"

\* The characters of the model in ascending code point order:
\* \t (9), \n (10), space (32), digits (48-57), ':' (58), A-Z (65-90), a-z (97-122).
CodePoints == "\t\n 0123456789:" \o UpperCase \o LowerCase

Char(s, i) == SubSeq(s, i, i)

Chars == {Char(CodePoints, i) : i \in 1..Len(CodePoints)}

\* The rank of a character in code point order (order-isomorphic to ord()).
ord == [c \in Chars |-> CHOOSE i \in 1..Len(CodePoints) : Char(CodePoints, i) = c]

\* The characters str.strip() removes, among Chars.
Whitespace == {"\t", "\n", " "}

\* The lower-case form of each character.
char_lower ==
    [c \in Chars |->
        IF \E i \in 1..Len(UpperCase) : Char(UpperCase, i) = c
        THEN Char(LowerCase, CHOOSE i \in 1..Len(UpperCase) : Char(UpperCase, i) = c)
        ELSE c]

\* str.lower()
RECURSIVE str_lower(_)
str_lower(s) ==
    IF s = "" THEN "" ELSE char_lower[Head(s)] \o str_lower(Tail(s))

RECURSIVE str_lstrip(_)
str_lstrip(s) ==
    IF s # "" /\ Head(s) \in Whitespace THEN str_lstrip(Tail(s)) ELSE s

RECURSIVE str_rstrip(_)
str_rstrip(s) ==
    IF s # "" /\ Char(s, Len(s)) \in Whitespace
    THEN str_rstrip(SubSeq(s, 1, Len(s) - 1))
    ELSE s

\* str.strip()
str_strip(s) == str_rstrip(str_lstrip(s))

\* a < b on str: lexicographic by code point.
RECURSIVE str_lt(_, _)
str_lt(a, b) ==
    IF b = "" THEN FALSE
    ELSE IF a = "" THEN TRUE
    ELSE IF Head(a) = Head(b) THEN str_lt(Tail(a), Tail(b))
    ELSE ord[Head(a)] < ord[Head(b)]

\* min(a, b) and max(a, b) on str: the first argument wins a tie.
str_min(a, b) == IF str_lt(b, a) THEN b ELSE a
str_max(a, b) == IF str_lt(a, b) THEN b ELSE a

-----------------------------------------------------------------------------
(* Python int | None and dict *)

None == <<>>
Some(n) == <<n>>

dict_index(d, k) == CHOOSE i \in 1..Len(d) : d[i][1] = k

dict_has(d, k) == \E i \in 1..Len(d) : d[i][1] = k

\* d.get(k) for a dict of ints: Some(value) or None.
dict_get(d, k) == IF dict_has(d, k) THEN Some(d[dict_index(d, k)][2]) ELSE None

\* d[k] = v: an existing key keeps its position, a new key goes last.
dict_set(d, k, v) ==
    IF dict_has(d, k)
    THEN [d EXCEPT ![dict_index(d, k)] = <<k, v>>]
    ELSE Append(d, <<k, v>>)

\* Keys of a dict, as a set.
dict_keys(d) == {d[i][1] : i \in 1..Len(d)}

-----------------------------------------------------------------------------
(* The dataset: latency.py lines 23-178 *)

\* _add that registers the pair in the order given only.
add_oneway(d, a, b, rtt) == dict_set(d, <<a, b>>, rtt)

\* _add(a, b, rtt): register a symmetric latency pair.
add(d, a, b, rtt) == dict_set(dict_set(d, <<a, b>>, rtt), <<b, a>>, rtt)

\* The module's _add calls, in source order.
ADD_CALLS == <<
    <<"francecentral", "francesouth", 10>>,
    <<"francecentral", "westeurope", 12>>,
    <<"francecentral", "northeurope", 22>>,
    <<"francecentral", "germanywestcentral", 10>>,
    <<"francecentral", "switzerlandnorth", 9>>,
    <<"francecentral", "swedencentral", 32>>,
    <<"francecentral", "uksouth", 10>>,
    <<"francecentral", "ukwest", 12>>,
    <<"francecentral", "norwayeast", 34>>,
    <<"francecentral", "polandcentral", 24>>,
    <<"francecentral", "italynorth", 12>>,
    <<"francecentral", "spaincentral", 16>>,
    <<"westeurope", "northeurope", 14>>,
    <<"westeurope", "germanywestcentral", 8>>,
    <<"westeurope", "switzerlandnorth", 10>>,
    <<"westeurope", "swedencentral", 30>>,
    <<"westeurope", "uksouth", 8>>,
    <<"westeurope", "ukwest", 10>>,
    <<"westeurope", "norwayeast", 32>>,
    <<"westeurope", "francesouth", 16>>,
    <<"westeurope", "polandcentral", 22>>,
    <<"westeurope", "italynorth", 14>>,
    <<"westeurope", "spaincentral", 20>>,
    <<"northeurope", "uksouth", 12>>,
    <<"northeurope", "ukwest", 14>>,
    <<"northeurope", "swedencentral", 24>>,
    <<"northeurope", "germanywestcentral", 18>>,
    <<"northeurope", "norwayeast", 26>>,
    <<"northeurope", "switzerlandnorth", 22>>,
    <<"germanywestcentral", "switzerlandnorth", 6>>,
    <<"germanywestcentral", "swedencentral", 26>>,
    <<"germanywestcentral", "polandcentral", 14>>,
    <<"germanywestcentral", "italynorth", 12>>,
    <<"germanywestcentral", "norwayeast", 28>>,
    <<"swedencentral", "norwayeast", 12>>,
    <<"swedencentral", "polandcentral", 22>>,
    <<"swedencentral", "switzerlandnorth", 30>>,
    <<"uksouth", "ukwest", 6>>,
    <<"uksouth", "northeurope", 12>>,
    <<"switzerlandnorth", "switzerlandwest", 4>>,
    <<"switzerlandnorth", "italynorth", 8>>,
    <<"norwayeast", "norwaywest", 8>>,
    <<"eastus", "eastus2", 4>>,
    <<"eastus", "centralus", 20>>,
    <<"eastus", "westus", 62>>,
    <<"eastus", "westus2", 62>>,
    <<"eastus", "westus3", 56>>,
    <<"eastus", "northcentralus", 18>>,
    <<"eastus", "southcentralus", 28>>,
    <<"eastus", "westcentralus", 36>>,
    <<"eastus", "canadacentral", 16>>,
    <<"eastus", "canadaeast", 20>>,
    <<"eastus2", "centralus", 18>>,
    <<"eastus2", "westus", 60>>,
    <<"eastus2", "westus2", 60>>,
    <<"eastus2", "westus3", 54>>,
    <<"eastus2", "northcentralus", 16>>,
    <<"eastus2", "southcentralus", 26>>,
    <<"eastus2", "canadacentral", 18>>,
    <<"centralus", "northcentralus", 6>>,
    <<"centralus", "southcentralus", 16>>,
    <<"centralus", "westcentralus", 14>>,
    <<"centralus", "westus", 44>>,
    <<"centralus", "westus2", 42>>,
    <<"centralus", "westus3", 38>>,
    <<"westus", "westus2", 6>>,
    <<"westus", "westus3", 12>>,
    <<"westus", "northcentralus", 40>>,
    <<"westus", "southcentralus", 36>>,
    <<"westus2", "westus3", 10>>,
    <<"westus2", "northcentralus", 38>>,
    <<"westus2", "southcentralus", 34>>,
    <<"northcentralus", "southcentralus", 22>>,
    <<"northcentralus", "westcentralus", 18>>,
    <<"northcentralus", "canadacentral", 14>>,
    <<"southcentralus", "westcentralus", 20>>,
    <<"southcentralus", "westus3", 30>>,
    <<"canadacentral", "canadaeast", 8>>,
    <<"eastasia", "southeastasia", 32>>,
    <<"eastasia", "japaneast", 30>>,
    <<"eastasia", "japanwest", 34>>,
    <<"eastasia", "koreacentral", 28>>,
    <<"eastasia", "koreasouth", 30>>,
    <<"eastasia", "australiaeast", 110>>,
    <<"southeastasia", "australiaeast", 78>>,
    <<"southeastasia", "australiasoutheast", 80>>,
    <<"southeastasia", "japaneast", 60>>,
    <<"southeastasia", "koreacentral", 56>>,
    <<"southeastasia", "centralindia", 50>>,
    <<"japaneast", "japanwest", 8>>,
    <<"japaneast", "koreacentral", 20>>,
    <<"koreacentral", "koreasouth", 6>>,
    <<"australiaeast", "australiasoutheast", 6>>,
    <<"australiaeast", "australiacentral", 4>>,
    <<"centralindia", "southindia", 12>>,
    <<"centralindia", "westindia", 16>>,
    <<"eastus", "westeurope", 80>>,
    <<"eastus", "northeurope", 76>>,
    <<"eastus", "uksouth", 74>>,
    <<"eastus", "francecentral", 82>>,
    <<"westus2", "eastasia", 140>>,
    <<"westus2", "japaneast", 100>>,
    <<"westus2", "southeastasia", 158>>,
    <<"westeurope", "eastasia", 180>>,
    <<"westeurope", "southeastasia", 170>>,
    <<"westeurope", "centralindia", 110>>,
    <<"uaenorth", "uaecentral", 4>>,
    <<"uaenorth", "westeurope", 100>>,
    <<"uaenorth", "centralindia", 50>>,
    <<"southafricanorth", "southafricawest", 8>>,
    <<"southafricanorth", "westeurope", 140>>,
    <<"brazilsouth", "brazilsoutheast", 6>>,
    <<"brazilsouth", "eastus", 120>>,
    <<"brazilsouth", "eastus2", 118>>
>>

\* Region names of the dataset.
Regions == {ADD_CALLS[i][1] : i \in 1..Len(ADD_CALLS)}
               \cup {ADD_CALLS[i][2] : i \in 1..Len(ADD_CALLS)}

-----------------------------------------------------------------------------
(* Runtime cache: latency.py lines 186-192 *)

CACHE_TTL == 86400

\* _cache_key(a, b)
cache_key(a, b) ==
    LET la == str_lower(a)
        lb == str_lower(b)
        parts == IF str_lt(lb, la) THEN <<lb, la>> ELSE <<la, lb>>
    IN  parts[1] \o ":" \o parts[2]

\* _cache.get(ck): Some(<<ts, val>>) or None.
cache_get(c, ck) == dict_get(c, ck)

-----------------------------------------------------------------------------
(* Public API: latency.py lines 200-259 *)

\* Normalising without strip().
normalise_nostrip(r) == str_lower(r)

\* region.lower().strip()
normalise(r) == str_strip(str_lower(r))

\* Lines 208-217 comparing the arguments as given, not as normalised.
rtt_static_raw(d, region_a, region_b) ==
    LET a == normalise(region_a)
        b == normalise(region_b)
    IN  IF region_a = region_b THEN Some(Some(0))
        ELSE IF dict_get(d, <<a, b>>) # None THEN Some(dict_get(d, <<a, b>>))
        ELSE None

\* Lines 208-217 with _LATENCY_PAIRS.get((a, b), 0): a missing pair gives 0.
rtt_static_default(d, region_a, region_b) ==
    LET a == normalise(region_a)
        b == normalise(region_b)
    IN  IF a = b THEN Some(Some(0))
        ELSE IF dict_get(d, <<a, b>>) # None THEN Some(dict_get(d, <<a, b>>))
        ELSE Some(Some(0))

\* The static dataset step of get_rtt_ms (lines 208-217): Some(result) when
\* the call returns there, None when it goes on to the runtime cache.
rtt_static(d, region_a, region_b) ==
    LET a == normalise(region_a)
        b == normalise(region_b)
    IN  IF a = b THEN Some(Some(0))
        ELSE IF dict_get(d, <<a, b>>) # None THEN Some(dict_get(d, <<a, b>>))
        ELSE None

\* Lines 219-227 ending in return 0.
rtt_cached_zero(c, t, region_a, region_b) ==
    LET a == normalise(region_a)
        b == normalise(region_b)
        ck == cache_key(a, b)
        cached == cache_get(c, ck)
    IN  IF cached # None /\ t - cached[1][1] < CACHE_TTL
        THEN cached[1][2]
        ELSE Some(0)

\* The runtime cache step of get_rtt_ms (lines 219-227).
rtt_cached(c, t, region_a, region_b) ==
    LET a == normalise(region_a)
        b == normalise(region_b)
        ck == cache_key(a, b)
        cached == cache_get(c, ck)
    IN  IF cached # None /\ t - cached[1][1] < CACHE_TTL
        THEN cached[1][2]
        ELSE None

\* get_rtt_ms(region_a, region_b) on dict d, cache c and clock reading t.
get_rtt_ms(d, c, t, region_a, region_b) ==
    LET s == rtt_static(d, region_a, region_b)
    IN  IF s # None THEN s[1] ELSE rtt_cached(c, t, region_a, region_b)

\* The key of a dict item taken as (a, b), not (min(a, b), max(a, b)).
lkp_key_ordered(item) == <<item[1][1], item[1][2]>>

\* key = (min(a, b), max(a, b)) of the dict item <<<<a, b>>, rtt>> (line 235).
lkp_key(item) == <<str_min(item[1][1], item[1][2]), str_max(item[1][1], item[1][2])>>

\* One iteration of the loop of list_known_pairs (lines 234-238) on a dict
\* item; st is [seen, pairs].
lkp_step(item, st) ==
    LET key == lkp_key(item)
    IN  IF key \notin st.seen
        THEN [seen |-> st.seen \cup {key},
              pairs |-> Append(st.pairs,
                               [regionA |-> key[1], regionB |-> key[2],
                                rttMs |-> item[2]])]
        ELSE st

\* The whole loop over d.items() (lines 232-238): an item adds a pair when no
\* earlier item has its key, which is when its key is not yet in seen.
\* (SubSeq makes keys a tuple that is computed once.)
lkp_pairs(d) ==
    LET keys == SubSeq([i \in 1..Len(d) |-> lkp_key(d[i])], 1, Len(d))
        isNew(i) == \A j \in 1..(i - 1) : keys[j] # keys[i]
        new == SelectSeq([i \in 1..Len(d) |-> i], isNew)
    IN  [n \in 1..Len(new) |->
            [regionA |-> keys[new[n]][1], regionB |-> keys[new[n]][2],
             rttMs |-> d[new[n]][2]]]

\* The sort key (p["regionA"], p["regionB"]), compared as Python compares tuples.
pair_lt(p, q) ==
    \/ str_lt(p.regionA, q.regionA)
    \/ p.regionA = q.regionA /\ str_lt(p.regionB, q.regionB)

\* sorted(pairs, key=...) (line 239).
sorted(ps) == SortSeq(ps, pair_lt)

\* list_known_pairs() returning pairs as collected, unsorted.
list_known_pairs_unsorted(d) == lkp_pairs(d)

\* list_known_pairs() on dict d.
list_known_pairs(d) ==
    sorted(lkp_pairs(d))

\* get_latency_matrix() dropping the names it has already seen.
get_latency_matrix_dedup(d, c, t, region_names) ==
    LET all == [i \in 1..Len(region_names) |-> normalise(region_names[i])]
        isNew(i) == \A j \in 1..(i - 1) : all[j] # all[i]
        new == SelectSeq([i \in 1..Len(all) |-> i], isNew)
        normalised == [n \in 1..Len(new) |-> all[new[n]]]
    IN  [regions |-> normalised,
         matrix |-> [i \in 1..Len(normalised) |->
                        [j \in 1..Len(normalised) |->
                            get_rtt_ms(d, c, t, normalised[i], normalised[j])]]]

\* get_latency_matrix(region_names) on dict d, cache c and clock reading t.
get_latency_matrix(d, c, t, region_names) ==
    LET normalised == [i \in 1..Len(region_names) |-> normalise(region_names[i])]
    IN  [regions |-> normalised,
         matrix |-> [i \in 1..Len(normalised) |->
                        [j \in 1..Len(normalised) |->
                            get_rtt_ms(d, c, t, normalised[i], normalised[j])]]]

-----------------------------------------------------------------------------
(* Arguments the callers pass *)

\* Arguments of get_rtt_ms: every region of the dataset, a name the dataset
\* does not hold, names in other letter case or with whitespace at the edges,
\* and a name with whitespace inside.
RttInputs ==
    Regions \cup
    {"nonexistentregion", "FranceCentral", " francecentral", "WESTEUROPE\t",
     " WestEurope\n", "NonExistentRegion ", "\tNONEXISTENTREGION", "west europe"}

\* Names in the lists passed to get_latency_matrix.
MatrixNames ==
    {"francecentral", "westeurope", "FranceCentral", "WestEurope", " eastus\t",
     "nonexistentregion"}

RECURSIVE SeqsUpTo(_, _)
SeqsUpTo(S, n) ==
    IF n = 0 THEN {<<>>}
    ELSE LET shorter == SeqsUpTo(S, n - 1)
         IN  shorter \cup {Append(s, x) : s \in shorter, x \in S}

MatrixInputs == SeqsUpTo(MatrixNames, MaxRegions)

-----------------------------------------------------------------------------
(* The sequential caller *)

\* The concurrent readers.
Readers == {1, 2}

\* A reader that is not in a call.
ReaderIdle ==
    [pc |-> "idle", op |-> "", a |-> "", b |-> "", names |-> <<>>,
     regions |-> <<>>, i |-> 0, j |-> 0, st |-> [seen |-> {}, pairs |-> <<>>],
     matrix |-> <<>>, ret |-> <<>>]

Idle == [op |-> "idle", a |-> "", b |-> "", regions |-> <<>>, ret |-> <<>>]

\* The module starts with an empty dict (line 23) and an empty cache (line 187).
Init ==
    /\ LATENCY_PAIRS = <<>>
    /\ adds = 0
    /\ cache = <<>>
    /\ now = 0
    /\ ticks = 0
    /\ call = Idle
    /\ readers = [r \in Readers |-> ReaderIdle]

\* time.monotonic() advances, by a second or by the cache's time to live.
Tick ==
    /\ ticks < MaxTicks
    /\ \E d \in {1, CACHE_TTL} : now' = now + d
    /\ ticks' = ticks + 1
    /\ UNCHANGED <<LATENCY_PAIRS, cache, call, adds, readers>>

\* The module's next _add call runs (lines 33-178).
ModuleAdd ==
    /\ adds < Len(ADD_CALLS)
    /\ LATENCY_PAIRS' = add(LATENCY_PAIRS, ADD_CALLS[adds + 1][1],
                            ADD_CALLS[adds + 1][2], ADD_CALLS[adds + 1][3])
    /\ adds' = adds + 1
    /\ UNCHANGED <<cache, now, ticks, call, readers>>

\* The module is imported: every _add call has run and the functions exist.
Imported == adds >= Len(ADD_CALLS)

\* get_rtt_ms() keeping its result in _cache.
GetRttMs_memo(region_a, region_b) ==
    /\ call.op = "idle"
    /\ call' = [Idle EXCEPT !.op = "get_rtt_ms", !.a = region_a, !.b = region_b,
                            !.ret = get_rtt_ms(LATENCY_PAIRS, cache, now,
                                               region_a, region_b)]
    /\ cache' = dict_set(cache, cache_key(normalise(region_a), normalise(region_b)),
                         <<now, get_rtt_ms(LATENCY_PAIRS, cache, now,
                                           region_a, region_b)>>)
    /\ UNCHANGED <<LATENCY_PAIRS, now, ticks, adds, readers>>

\* A call of get_rtt_ms(region_a, region_b).
GetRttMs(region_a, region_b) ==
    /\ call.op = "idle"
    /\ call' = [Idle EXCEPT !.op = "get_rtt_ms", !.a = region_a, !.b = region_b,
                            !.ret = get_rtt_ms(LATENCY_PAIRS, cache, now,
                                               region_a, region_b)]
    /\ UNCHANGED <<LATENCY_PAIRS, cache, now, ticks, adds, readers>>

\* A call of list_known_pairs().
ListKnownPairs ==
    /\ call.op = "idle"
    /\ call' = [Idle EXCEPT !.op = "list_known_pairs",
                            !.ret = list_known_pairs(LATENCY_PAIRS)]
    /\ UNCHANGED <<LATENCY_PAIRS, cache, now, ticks, adds, readers>>

\* A call of get_latency_matrix(region_names).
GetLatencyMatrix(region_names) ==
    /\ call.op = "idle"
    /\ call' = [Idle EXCEPT !.op = "get_latency_matrix", !.regions = region_names,
                            !.ret = get_latency_matrix(LATENCY_PAIRS, cache, now,
                                                       region_names)]
    /\ UNCHANGED <<LATENCY_PAIRS, cache, now, ticks, adds, readers>>

\* The caller takes the result and is ready for its next call.
Return ==
    /\ call.op # "idle"
    /\ call' = Idle
    /\ UNCHANGED <<LATENCY_PAIRS, cache, now, ticks, adds, readers>>

CallRtt ==
    /\ Imported
    /\ \E region_a \in RttInputs, region_b \in RttInputs :
           GetRttMs(region_a, region_b)

CallMatrix ==
    /\ Imported
    /\ \E region_names \in MatrixInputs : GetLatencyMatrix(region_names)

CallList == Imported /\ ListKnownPairs

Next ==
    \/ ModuleAdd
    \/ Tick
    \/ CallRtt
    \/ CallList
    \/ CallMatrix
    \/ Return

Spec == Init /\ [][Next]_vars

-----------------------------------------------------------------------------
(* _add called again once the module is imported *)

\* Regions passed to _add at run time: two of the dataset and a new one.
AddRegions == {"eastus", "westeurope", "mars"}

\* Arguments of get_rtt_ms in SpecAdd.
AddInputs == AddRegions \cup {"EastUS ", "francecentral"}

\* A call of _add(a, b, rtt) after the import.
AnyAdd(a, b, rtt) ==
    /\ Imported
    /\ adds < Len(ADD_CALLS) + MaxAdds
    /\ call.op = "idle"
    /\ LATENCY_PAIRS' = add(LATENCY_PAIRS, a, b, rtt)
    /\ adds' = adds + 1
    /\ UNCHANGED <<cache, now, ticks, call, readers>>

CallAdd == \E a \in AddRegions, b \in AddRegions, rtt \in 1..MaxRtt : AnyAdd(a, b, rtt)

CallRttAdd ==
    /\ Imported
    /\ \E region_a \in AddInputs, region_b \in AddInputs :
           GetRttMs(region_a, region_b)

NextAdd ==
    \/ ModuleAdd
    \/ CallAdd
    \/ CallRttAdd
    \/ Return

SpecAdd == Init /\ [][NextAdd]_vars

-----------------------------------------------------------------------------
(* Concurrent readers: each step reads the shared state once *)

ConcNames == {"FranceCentral", "westeurope", "nonexistentregion"}

ConcMatrixInputs ==
    {<<>>, <<"westeurope">>, <<"FranceCentral", "westeurope">>,
     <<"westeurope", "nonexistentregion">>}

\* Reader r enters get_rtt_ms(region_a, region_b).
StartRtt(r, region_a, region_b) ==
    /\ Imported
    /\ readers[r].pc = "idle"
    /\ readers' = [readers EXCEPT ![r] =
           [ReaderIdle EXCEPT !.pc = "static", !.op = "get_rtt_ms",
                              !.a = region_a, !.b = region_b]]
    /\ UNCHANGED <<LATENCY_PAIRS, cache, now, ticks, call, adds>>

\* Reader r enters list_known_pairs() (lines 232-233).
StartList(r) ==
    /\ Imported
    /\ readers[r].pc = "idle"
    /\ readers' = [readers EXCEPT ![r] =
           [ReaderIdle EXCEPT !.pc = "loop", !.op = "list_known_pairs", !.i = 1]]
    /\ UNCHANGED <<LATENCY_PAIRS, cache, now, ticks, call, adds>>

\* Reader r enters get_latency_matrix(region_names) (lines 252-253); with no
\* region the loops do not run and it returns at once.
StartMatrix(r, region_names) ==
    /\ Imported
    /\ readers[r].pc = "idle"
    /\ LET normalised == [i \in 1..Len(region_names) |-> normalise(region_names[i])]
           rd == [ReaderIdle EXCEPT !.op = "get_latency_matrix",
                                    !.names = region_names, !.regions = normalised]
       IN  readers' = [readers EXCEPT ![r] =
               IF normalised = <<>>
               THEN [rd EXCEPT !.pc = "done",
                               !.ret = [regions |-> normalised, matrix |-> <<>>]]
               ELSE [rd EXCEPT !.pc = "static", !.i = 1, !.j = 1,
                               !.a = normalised[1], !.b = normalised[1]]]
    /\ UNCHANGED <<LATENCY_PAIRS, cache, now, ticks, call, adds>>

\* get_rtt_ms returns v to reader rd: to its caller, or into the cell
\* matrix[i][j] of get_latency_matrix (lines 254-259), which goes on to the
\* next cell.
rtt_return(rd, v) ==
    IF rd.op = "get_rtt_ms" THEN [rd EXCEPT !.pc = "done", !.ret = v]
    ELSE LET n == Len(rd.regions)
             mx == IF rd.j = 1 THEN Append(rd.matrix, <<v>>)
                   ELSE [rd.matrix EXCEPT ![rd.i] = Append(@, v)]
         IN  IF rd.j < n
             THEN [rd EXCEPT !.matrix = mx, !.pc = "static", !.j = rd.j + 1,
                             !.b = rd.regions[rd.j + 1]]
             ELSE IF rd.i < n
             THEN [rd EXCEPT !.matrix = mx, !.pc = "static", !.i = rd.i + 1,
                             !.j = 1, !.a = rd.regions[rd.i + 1],
                             !.b = rd.regions[1]]
             ELSE [rd EXCEPT !.matrix = mx, !.pc = "done",
                             !.ret = [regions |-> rd.regions, matrix |-> mx]]

\* Lines 208-217 on a dict that inserts 0 for a key it does not hold.
RttStatic_insert(r) ==
    /\ readers[r].pc = "static"
    /\ LET s == rtt_static(LATENCY_PAIRS, readers[r].a, readers[r].b)
       IN  /\ readers' = [readers EXCEPT ![r] =
                   IF s # None THEN rtt_return(readers[r], s[1])
                   ELSE [readers[r] EXCEPT !.pc = "cached"]]
           /\ LATENCY_PAIRS' =
                   IF s # None THEN LATENCY_PAIRS
                   ELSE dict_set(LATENCY_PAIRS,
                                 <<normalise(readers[r].a), normalise(readers[r].b)>>, 0)
    /\ UNCHANGED <<cache, now, ticks, call, adds>>

\* Reader r runs lines 208-217 of get_rtt_ms: it reads _LATENCY_PAIRS.
RttStatic(r) ==
    /\ readers[r].pc = "static"
    /\ LET s == rtt_static(LATENCY_PAIRS, readers[r].a, readers[r].b)
       IN  readers' = [readers EXCEPT ![r] =
               IF s # None THEN rtt_return(readers[r], s[1])
               ELSE [readers[r] EXCEPT !.pc = "cached"]]
    /\ UNCHANGED <<LATENCY_PAIRS, cache, now, ticks, call, adds>>

\* Reader r runs lines 219-227 of get_rtt_ms: it reads _cache and the clock.
RttCached(r) ==
    /\ readers[r].pc = "cached"
    /\ readers' = [readers EXCEPT ![r] =
           rtt_return(readers[r],
                      rtt_cached(cache, now, readers[r].a, readers[r].b))]
    /\ UNCHANGED <<LATENCY_PAIRS, cache, now, ticks, call, adds>>

\* Reader r runs one iteration of the loop of list_known_pairs.
ListStep(r) ==
    /\ readers[r].pc = "loop"
    /\ readers[r].i <= Len(LATENCY_PAIRS)
    /\ readers' = [readers EXCEPT ![r] =
           [readers[r] EXCEPT !.i = readers[r].i + 1,
                              !.st = lkp_step(LATENCY_PAIRS[readers[r].i],
                                              readers[r].st)]]
    /\ UNCHANGED <<LATENCY_PAIRS, cache, now, ticks, call, adds>>

\* Reader r leaves the loop, sorts its pairs and returns them (line 239).
ListSort(r) ==
    /\ readers[r].pc = "loop"
    /\ readers[r].i > Len(LATENCY_PAIRS)
    /\ readers' = [readers EXCEPT ![r] =
           [readers[r] EXCEPT !.pc = "done", !.ret = sorted(readers[r].st.pairs)]]
    /\ UNCHANGED <<LATENCY_PAIRS, cache, now, ticks, call, adds>>

\* Reader r takes its result and is ready for its next call.
ReaderReturn(r) ==
    /\ readers[r].pc = "done"
    /\ readers' = [readers EXCEPT ![r] = ReaderIdle]
    /\ UNCHANGED <<LATENCY_PAIRS, cache, now, ticks, call, adds>>

ReaderNext(r) ==
    \/ \E region_a \in ConcNames, region_b \in ConcNames :
           StartRtt(r, region_a, region_b)
    \/ StartList(r)
    \/ \E region_names \in ConcMatrixInputs : StartMatrix(r, region_names)
    \/ RttStatic(r)
    \/ RttCached(r)
    \/ ListStep(r)
    \/ ListSort(r)
    \/ ReaderReturn(r)

NextConc ==
    \/ ModuleAdd
    \/ \E r \in Readers : ReaderNext(r)

SpecConc == Init /\ [][NextConc]_vars

-----------------------------------------------------------------------------
(* Properties *)

\* x and y have the same letters up to letter case.
SameLetters(x, y) ==
    /\ Len(x) = Len(y)
    /\ \A i \in 1..Len(x) :
           \/ Char(x, i) = Char(y, i)
           \/ \E k \in 1..Len(UpperCase) :
                  {Char(x, i), Char(y, i)} = {Char(UpperCase, k), Char(LowerCase, k)}

\* s consists of whitespace.
IsBlank(s) == \A i \in 1..Len(s) : Char(s, i) \in Whitespace

\* x and y differ only in letter case or in whitespace at the edges.
Variant(x, y) ==
    \E lx \in 0..Len(x), ly \in 0..Len(y) :
        /\ IsBlank(SubSeq(x, 1, lx))
        /\ IsBlank(SubSeq(y, 1, ly))
        /\ \E hx \in lx..Len(x), hy \in ly..Len(y) :
               /\ IsBlank(SubSeq(x, hx + 1, Len(x)))
               /\ IsBlank(SubSeq(y, hy + 1, Len(y)))
               /\ SameLetters(SubSeq(x, lx + 1, hx), SubSeq(y, ly + 1, hy))

\* s is a region identifier: no upper-case letter, no whitespace at the edges.
IsIdentifier(s) ==
    /\ \A i \in 1..Len(s) : \A k \in 1..Len(UpperCase) : Char(s, i) # Char(UpperCase, k)
    /\ s # "" => Char(s, 1) \notin Whitespace /\ Char(s, Len(s)) \notin Whitespace

\* The identifiers the callers' names stand for.
Identifiers == Regions \cup {"nonexistentregion", "west europe", "mars"}

\* The names the callers pass.
Names == RttInputs \cup MatrixNames \cup AddInputs \cup ConcNames

\* The identifier each name stands for.
IdentifierOf ==
    [x \in Names |-> CHOOSE s \in Identifiers : IsIdentifier(s) /\ Variant(s, x)]

\* The unordered pair {a, b} is registered in dict d.
Registered(d, a, b) == dict_has(d, <<a, b>>) \/ dict_has(d, <<b, a>>)

\* C1: a call of get_rtt_ms with two names that normalise to the same
\* identifier returns 0, whether the dataset holds that identifier or not.
C1_SelfLatencyIsZero ==
    (call.op = "get_rtt_ms" /\ Variant(call.a, call.b)) => call.ret = Some(0)

\* Reached: two different spellings of a name the dataset does not hold.
C1_Witness ==
    /\ call.op = "get_rtt_ms"
    /\ call.a = "NonExistentRegion "
    /\ call.b = "\tNONEXISTENTREGION"
    /\ \A k \in dict_keys(LATENCY_PAIRS) : "nonexistentregion" \notin {k[1], k[2]}
    /\ call.ret = Some(0)

\* A cache that holds nothing, and one that holds a value for the pair of a
\* and b, stored at time 0 under the key _cache_key gives the pair.
CachesFor(a, b) ==
    {<<>>, << <<cache_key(normalise(a), normalise(b)), <<0, Some(7)>> >> >>}

\* C2: after any _add calls, get_rtt_ms(A, B) and get_rtt_ms(B, A) are the
\* same integer or both None; they are also the same on the runtime cache
\* path, for a cache that holds an entry for the pair, fresh or expired.
C2_Symmetric ==
    call.op = "get_rtt_ms" =>
        /\ call.ret = get_rtt_ms(LATENCY_PAIRS, cache, now, call.b, call.a)
        /\ \A c \in CachesFor(call.a, call.b), t \in {0, CACHE_TTL} :
               get_rtt_ms(LATENCY_PAIRS, c, t, call.a, call.b)
                   = get_rtt_ms(LATENCY_PAIRS, c, t, call.b, call.a)

\* Reached: a pair of the dataset registered again, in the opposite order and
\* with another value, and looked up in the order of the dataset.
C2_Witness ==
    /\ adds = Len(ADD_CALLS) + 1
    /\ call.op = "get_rtt_ms"
    /\ call.a = "EastUS "
    /\ call.b = "westeurope"
    /\ call.ret = Some(1)
    /\ Len(LATENCY_PAIRS) = 2 * (Len(ADD_CALLS) - 1)

\* C3: get_rtt_ms returns None for two different identifiers when neither
\* order is registered, whatever the clock reads; so does each such cell of
\* the matrix; the cache holds nothing.
C3_UnknownIsNone ==
    /\ cache = <<>>
    /\ call.op = "get_rtt_ms" =>
           LET a == IdentifierOf[call.a]
               b == IdentifierOf[call.b]
           IN  (a # b /\ ~Registered(LATENCY_PAIRS, a, b)) => call.ret = None
    /\ call.op = "get_latency_matrix" =>
           \A i \in 1..Len(call.regions), j \in 1..Len(call.regions) :
               LET a == IdentifierOf[call.regions[i]]
                   b == IdentifierOf[call.regions[j]]
               IN  (a # b /\ ~Registered(LATENCY_PAIRS, a, b)) =>
                       call.ret.matrix[i][j] = None

\* Reached: an unregistered pair looked up after the clock has advanced by
\* the cache's time to live.
C3_Witness ==
    /\ call.op = "get_rtt_ms"
    /\ call.a = "FranceCentral"
    /\ call.b = "NonExistentRegion "
    /\ now >= CACHE_TTL
    /\ call.ret = None

\* The unordered pair of an entry of list_known_pairs().
Unordered(e) == {e.regionA, e.regionB}

\* C4: list_known_pairs() holds every registered unordered pair exactly once
\* and nothing else, each entry has regionA <= regionB, and the entries
\* ascend strictly in the order of (regionA, regionB).
C4_ListSortedUnique ==
    call.op = "list_known_pairs" =>
        LET ps == call.ret
        IN  /\ \A k \in dict_keys(LATENCY_PAIRS) :
                   Cardinality({n \in 1..Len(ps) : Unordered(ps[n]) = {k[1], k[2]}}) = 1
            /\ \A n \in 1..Len(ps) :
                   /\ Registered(LATENCY_PAIRS, ps[n].regionA, ps[n].regionB)
                   /\ ~str_lt(ps[n].regionB, ps[n].regionA)
            /\ \A n \in 1..(Len(ps) - 1) : pair_lt(ps[n], ps[n + 1])

\* Reached: the list of the imported dataset.
C4_Witness ==
    /\ call.op = "list_known_pairs"
    /\ Len(call.ret) = 113
    /\ call.ret[1] = [regionA |-> "australiacentral", regionB |-> "australiaeast",
                      rttMs |-> 4]
    /\ call.ret[113] = [regionA |-> "westus2", regionB |-> "westus3", rttMs |-> 10]

\* C5: get_latency_matrix keeps the length, the order and the duplicates of
\* its input, and cell [i][j] is get_rtt_ms of regions[i] and regions[j], which
\* is also get_rtt_ms of the i-th and j-th names as given; no name gives
\* empty regions and matrix, one name gives [[0]].
C5_Matrix ==
    call.op = "get_latency_matrix" =>
        LET n == Len(call.regions)
            ret == call.ret
        IN  /\ Len(ret.regions) = n
            /\ Len(ret.matrix) = n
            /\ \A i \in 1..n :
                   /\ Variant(ret.regions[i], call.regions[i])
                   /\ Len(ret.matrix[i]) = n
                   /\ \A j \in 1..n :
                          /\ ret.matrix[i][j] =
                                 get_rtt_ms(LATENCY_PAIRS, cache, now,
                                            ret.regions[i], ret.regions[j])
                          /\ ret.matrix[i][j] =
                                 get_rtt_ms(LATENCY_PAIRS, cache, now,
                                            call.regions[i], call.regions[j])
            /\ n = 0 => ret = [regions |-> <<>>, matrix |-> <<>>]
            /\ n = 1 => ret.matrix = << <<Some(0)>> >>

\* Reached: a list that names one region twice, in two spellings.
C5_Witness ==
    /\ call.op = "get_latency_matrix"
    /\ call.regions = <<"FranceCentral", "francecentral">>
    /\ call.ret = [regions |-> <<"francecentral", "francecentral">>,
                   matrix |-> << <<Some(0), Some(0)>>, <<Some(0), Some(0)>> >>]

\* C6: get_rtt_ms gives for two names the result it gives for the identifiers
\* they stand for, so the same result for names that differ only in letter
\* case or in whitespace at the edges, and get_latency_matrix returns for each
\* name the identifier it stands for, in lower case and trimmed.
C6_CaseAndEdgeInsensitive ==
    /\ call.op = "get_rtt_ms" =>
           call.ret = get_rtt_ms(LATENCY_PAIRS, cache, now,
                                 IdentifierOf[call.a], IdentifierOf[call.b])
    /\ call.op = "get_latency_matrix" =>
           \A i \in 1..Len(call.regions) :
               call.ret.regions[i] = IdentifierOf[call.regions[i]]

\* Reached: a registered pair looked up in other letter case and with
\* whitespace at the edges.
C6_Witness ==
    /\ call.op = "get_rtt_ms"
    /\ call.a = " francecentral"
    /\ call.b = "WESTEUROPE\t"
    /\ call.ret = Some(12)

\* The result of the caller's call, computed in the current state.
CallResult ==
    CASE call.op = "get_rtt_ms" ->
             get_rtt_ms(LATENCY_PAIRS, cache, now, call.a, call.b)
      [] call.op = "list_known_pairs" -> list_known_pairs(LATENCY_PAIRS)
      [] call.op = "get_latency_matrix" ->
             get_latency_matrix(LATENCY_PAIRS, cache, now, call.regions)
      [] OTHER -> <<>>

\* C7: once the module is imported no step changes _LATENCY_PAIRS or _cache,
\* and the result a call returned stays the result of that call while the
\* clock advances.
C7_Immutable ==
    /\ [](call.ret = CallResult)
    /\ [][Imported => (LATENCY_PAIRS' = LATENCY_PAIRS /\ cache' = cache)]_vars

\* Reached: a result held while the clock advanced, the dataset intact.
C7_Witness ==
    /\ Imported
    /\ call.op = "get_rtt_ms"
    /\ call.a = "eastus"
    /\ call.b = "westeurope"
    /\ call.ret = Some(80)
    /\ ticks > 0
    /\ Len(LATENCY_PAIRS) = 226
    /\ cache = <<>>

\* The result reader rd would get running alone in the current state.
AloneResult(rd) ==
    CASE rd.op = "get_rtt_ms" -> get_rtt_ms(LATENCY_PAIRS, cache, now, rd.a, rd.b)
      [] rd.op = "list_known_pairs" -> list_known_pairs(LATENCY_PAIRS)
      [] rd.op = "get_latency_matrix" ->
             get_latency_matrix(LATENCY_PAIRS, cache, now, rd.names)
      [] OTHER -> <<>>

\* C8: a reader runs only once the module is imported, and under every
\* interleaving the result it ends with is the result of running alone.
C8_ReadersUndisturbed ==
    \A r \in Readers :
        /\ readers[r].pc # "idle" => Imported
        /\ readers[r].pc = "done" => readers[r].ret = AloneResult(readers[r])

\* Reached: one reader has its list while the other is inside get_rtt_ms for
\* a cell of a matrix.
C8_Witness ==
    /\ readers[1].pc = "done"
    /\ readers[1].op = "list_known_pairs"
    /\ Len(readers[1].ret) = 113
    /\ readers[2].op = "get_latency_matrix"
    /\ readers[2].pc = "cached"

\* C9: for a registered pair of different identifiers get_rtt_ms returns the
\* registered integer, which is positive; it returns 0 exactly when the two
\* names stand for the same identifier.
C9_RegisteredPositive ==
    call.op = "get_rtt_ms" =>
        LET a == IdentifierOf[call.a]
            b == IdentifierOf[call.b]
        IN  /\ (a # b /\ dict_has(LATENCY_PAIRS, <<a, b>>)) =>
                   /\ call.ret = dict_get(LATENCY_PAIRS, <<a, b>>)
                   /\ call.ret[1] > 0
            /\ call.ret = Some(0) <=> a = b

\* Reached: the pair of the example, with its registered value.
C9_Witness ==
    /\ call.op = "get_rtt_ms"
    /\ call.a = "francecentral"
    /\ call.b = "westeurope"
    /\ call.ret = Some(12)

\* C10: every entry of list_known_pairs() has the value get_rtt_ms returns
\* for it, every pair of different identifiers get_rtt_ms knows is in the
\* list, the list has half as many entries as the dict has keys, and no
\* entry pairs a region with itself.
C10_ListAgreesWithRtt ==
    call.op = "list_known_pairs" =>
        LET ps == call.ret
        IN  /\ \A n \in 1..Len(ps) :
                   /\ get_rtt_ms(LATENCY_PAIRS, cache, now, ps[n].regionA, ps[n].regionB)
                          = Some(ps[n].rttMs)
                   /\ ps[n].regionA # ps[n].regionB
            /\ \A a \in Identifiers, b \in Identifiers :
                   (a # b /\ get_rtt_ms(LATENCY_PAIRS, cache, now, a, b) # None) =>
                       \E n \in 1..Len(ps) : Unordered(ps[n]) = {a, b}
            /\ 2 * Len(ps) = Len(LATENCY_PAIRS)

\* Reached: the list of the imported dataset, with the pair of the example.
C10_Witness ==
    /\ call.op = "list_known_pairs"
    /\ 2 * Len(call.ret) = 226
    /\ \E n \in 1..Len(call.ret) :
           call.ret[n] = [regionA |-> "francecentral", regionB |-> "westeurope",
                          rttMs |-> 12]

=============================================================================
